---- MODULE Spec2Model ----
(***************************************************************************)
(* Model of the two scripts of the repository:                             *)
(*   main.py  six market-data capability functions, their registration as  *)
(*            tools, and one launch_single request;                        *)
(*   RAG.py   load_and_index_data, the two query-engine tools, and the     *)
(*            driver loop main() over its two queries.                     *)
(* Calls into libraries (yfinance, llama_index, llama_agents) are modelled *)
(* by the outcomes the caller can observe: a returned value or a raised    *)
(* exception.                                                              *)
(***************************************************************************)
EXTENDS Naturals, Sequences, FiniteSets

VARIABLES
    script,       \* which script is being run: "main" or "RAG"
    env_key,      \* OPENAI_API_KEY after load_dotenv(): NoKey, "" or a key
    pc,           \* position of the script's top-level control flow
    exc,          \* exception that ended the process ("" while none)
    registry,     \* names of the tools handed to the agent worker
    launcher,     \* TRUE once the LocalLauncher has been constructed
    call,         \* last capability-function invocation: input and outcome
    storage,      \* index directories under ./storage that can be restored
    lyft_index,   \* local variable lyft_index of load_and_index_data
    uber_index,   \* local variable uber_index of load_and_index_data
    persisted,    \* directories written by persist() during this run
    load_trace,   \* steps load_and_index_data has executed, in order
    qi,           \* index of the query the for loop of main() is at
    submitted,    \* requests passed to (a)launch_single, in order
    stdout        \* lines printed, in order

vars == <<script, env_key, pc, exc, registry, launcher, call, storage,
          lyft_index, uber_index, persisted, load_trace, qi, submitted, stdout>>

(***************************************************************************)
(* Bounds of the model.                                                    *)
(***************************************************************************)
\* numeric fields of an info record (P/E, P/B, yield, prices) range over 1..MaxRatio
MaxRatio == 2

(***************************************************************************)
(* Python values.  One record shape for every value, so that values of     *)
(* different Python types can be compared.                                 *)
(***************************************************************************)
None == [t |-> "none", n |-> 0, s |-> ""]
Num(x) == [t |-> "num", n |-> x, s |-> ""]
Str(x) == [t |-> "str", n |-> 0, s |-> x]
\* f"{x:.2f}"
Fmt2f(x) == [t |-> "fmt.2f", n |-> x, s |-> ""]
\* f"{x * 100:.2f}%"
FmtPct(x) == [t |-> "fmt.2f%", n |-> x * 100, s |-> ""]
\* s[:k]
Slice(v, k) == [t |-> "str", n |-> k, s |-> v.s]

IsNum(v) == v.t = "num"
IsStr(v) == v.t = "str"

\* dict.get(key, default)
Get(d, key, default) == IF key \in DOMAIN d THEN d[key] ELSE default

\* every dict with keys among K and values in V
Dicts(K, V) == UNION {[D -> V] : D \in SUBSET K}

NA == Str("N/A")
Unknown == Str("Unknown")

Symbols == {"AAPL", "MSFT"}
\* str(e) of an exception raised by the market-data library
UpstreamErrors == {"HTTP 404", "Expecting value: line 1 column 1"}
Numbers == {Num(x) : x \in 1..MaxRatio}

(***************************************************************************)
(* What a yfinance attribute access gives back: an exception, or data.     *)
(***************************************************************************)
Raised(m) == [ok |-> FALSE, err |-> m, data |-> [shape |-> "error"]]
Got(d) == [ok |-> TRUE, err |-> "", data |-> d]

\* stock.history(period="1d")
Histories ==
    {[shape |-> "empty"]} \cup {[shape |-> "frame", close |-> x] : x \in 1..MaxRatio}
\* stock.info, with the keys get_company_info reads
CompanyInfos ==
    {[shape |-> "dict", d |-> d] :
        d \in Dicts({"longName", "sector", "longBusinessSummary"}, {None, Str("text")})}
\* stock.info, with the keys get_financial_ratios reads
RatioInfos ==
    {[shape |-> "dict", d |-> d] :
        d \in Dicts({"trailingPE", "priceToBook", "dividendYield"}, {None} \cup Numbers)}
\* stock.recommendations
Recommendations ==
    {[shape |-> "none"], [shape |-> "empty"]} \cup
    {[shape |-> "frame", row |-> r, index |-> i] :
        r \in Dicts({"To Grade"}, {Str("Buy")}), i \in {"timestamp", "int"}}
\* stock.news
NewsLists ==
    {[shape |-> "empty"]} \cup
    {[shape |-> "list", first |-> f] : f \in Dicts({"title", "link"}, {Str("text")})}
\* stock.info, with the keys get_industry_comparison reads
ComparisonValues(key) ==
    IF key \in {"sector", "industry"} THEN {Str("text")} ELSE {None} \cup Numbers
ComparisonInfos ==
    {[shape |-> "dict", d |-> d] :
        d \in {e \in Dicts({"sector", "industry", "trailingPE", "industryPE"},
                            {None, Str("text")} \cup Numbers) :
                  \A k \in DOMAIN e : e[k] \in ComparisonValues(k)}}

(***************************************************************************)
(* Outcome of a capability function: the string it returns (a sequence of  *)
(* text pieces and interpolated values) and, in log, the messages it       *)
(* passed to logging.error.                                                *)
(***************************************************************************)
Return(text) == [kind |-> "return", text |-> text, log |-> <<>>]
LogAndReturn(logged, text) == [kind |-> "return", text |-> text, log |-> <<logged>>]

(***************************************************************************)
(* The six capability functions of main.py.  up is what the yfinance       *)
(* attribute the function reads gives back.  In each, body is the try      *)
(* block (Got(text), or Raised(str(e)) where a statement of it raises) and *)
(* the IF below it is the except clause.                                   *)
(***************************************************************************)
SummaryLimit == 200

get_stock_price(symbol, up) ==
    LET body ==
            IF ~up.ok THEN Raised(up.err)
            ELSE IF up.data.shape # "empty"
            THEN Got(<<Str("The current price of "), Str(symbol), Str(" is $"),
                       Fmt2f(up.data.close)>>)
            ELSE Got(<<Str("Unable to fetch the current price for "), Str(symbol),
                       Str(". The stock data is empty.")>>)
        failed == <<Str("Error fetching stock price for "), Str(symbol), Str(": "),
                    Str(body.err)>>
    IN  IF body.ok THEN Return(body.data) ELSE LogAndReturn(failed, failed)

get_company_info(symbol, up) ==
    LET info == up.data.d
        summary == Get(info, "longBusinessSummary", Str(""))
        body ==
            IF ~up.ok THEN Raised(up.err)
            ELSE IF "longName" \notin DOMAIN info THEN Raised("'longName'")
            ELSE IF ~IsStr(summary)
            THEN Raised("'NoneType' object is not subscriptable")
            ELSE Got(<<info["longName"], Str(" ("), Str(symbol), Str(") is in the "),
                       Get(info, "sector", Unknown), Str(" sector. "),
                       Slice(summary, SummaryLimit), Str("...")>>)
        failed == <<Str("Error fetching company info for "), Str(symbol), Str(": "),
                    Str(body.err)>>
    IN  IF body.ok THEN Return(body.data) ELSE LogAndReturn(failed, failed)

get_financial_ratios(symbol, up) ==
    LET info == up.data.d
        pe_ratio == Get(info, "trailingPE", NA)
        pb_ratio == Get(info, "priceToBook", NA)
        dividend_yield == Get(info, "dividendYield", NA)
        body ==
            IF ~up.ok THEN Raised(up.err)
            ELSE IF dividend_yield # NA /\ ~IsNum(dividend_yield)
            THEN Raised("unsupported operand type(s) for *: 'NoneType' and 'int'")
            ELSE Got(<<Str(symbol), Str(" financial ratios: P/E: "), pe_ratio,
                       Str(", P/B: "), pb_ratio, Str(", Dividend Yield: "),
                       IF dividend_yield # NA THEN FmtPct(dividend_yield.n)
                       ELSE dividend_yield>>)
        failed == <<Str("Error fetching financial ratios for "), Str(symbol), Str(": "),
                    Str(body.err)>>
    IN  IF body.ok THEN Return(body.data) ELSE LogAndReturn(failed, failed)

get_analyst_recommendations(symbol, up) ==
    LET recommendations == up.data
        body ==
            IF ~up.ok THEN Raised(up.err)
            ELSE IF recommendations.shape # "none" /\ recommendations.shape # "empty"
            THEN IF "To Grade" \notin DOMAIN recommendations.row
                 THEN Raised("'To Grade'")
                 ELSE IF recommendations.index # "timestamp"
                 THEN Raised("'int' object has no attribute 'date'")
                 ELSE Got(<<Str("Latest analyst recommendation for "), Str(symbol),
                            Str(": "), recommendations.row["To Grade"], Str(" as of "),
                            Str("date")>>)
            ELSE Got(<<Str("No analyst recommendations available for "), Str(symbol)>>)
        logged == <<Str("Error fetching analyst recommendations for "), Str(symbol),
                    Str(": "), Str(body.err)>>
        failed == <<Str("Unable to fetch analyst recommendations for "), Str(symbol),
                    Str(" due to an error: "), Str(body.err)>>
    IN  IF body.ok THEN Return(body.data) ELSE LogAndReturn(logged, failed)

get_recent_news_silent(symbol, up) ==
    LET news == up.data
        body ==
            IF ~up.ok THEN Raised(up.err)
            ELSE IF news.shape # "empty"
            THEN IF "title" \notin DOMAIN news.first THEN Raised("'title'")
                 ELSE IF "link" \notin DOMAIN news.first THEN Raised("'link'")
                 ELSE Got(<<Str("Latest news for "), Str(symbol), Str(": "),
                            news.first["title"], Str(" - "), news.first["link"]>>)
            ELSE Got(<<Str("No recent news available for "), Str(symbol)>>)
        failed == <<Str("Error fetching recent news for "), Str(symbol)>>
    IN  IF body.ok THEN Return(body.data) ELSE LogAndReturn(failed, failed)

get_recent_news(symbol, up) ==
    LET news == up.data
        body ==
            IF ~up.ok THEN Raised(up.err)
            ELSE IF news.shape # "empty"
            THEN IF "title" \notin DOMAIN news.first THEN Raised("'title'")
                 ELSE IF "link" \notin DOMAIN news.first THEN Raised("'link'")
                 ELSE Got(<<Str("Latest news for "), Str(symbol), Str(": "),
                            news.first["title"], Str(" - "), news.first["link"]>>)
            ELSE Got(<<Str("No recent news available for "), Str(symbol)>>)
        failed == <<Str("Error fetching recent news for "), Str(symbol), Str(": "),
                    Str(body.err)>>
    IN  IF body.ok THEN Return(body.data) ELSE LogAndReturn(failed, failed)

Lower == Str(") is lower than the industry average (")
Higher == Str(") is higher than the industry average (")
InLine == Str(") is in line with the industry average (")
UnableToCompare ==
    Str("Unable to compare P/E ratio with industry average due to lack of data.")

\* str(e) of the TypeError that a < b raises when a or b is None
NotComparable(a, b) ==
    IF IsNum(a) THEN "'<' not supported between instances of 'float' and 'NoneType'"
    ELSE IF IsNum(b) THEN "'<' not supported between instances of 'NoneType' and 'float'"
    ELSE "'<' not supported between instances of 'NoneType' and 'NoneType'"

get_industry_comparison(symbol, up) ==
    LET info == up.data.d
        sector == Get(info, "sector", Unknown)
        industry == Get(info, "industry", Unknown)
        pe_ratio == Get(info, "trailingPE", NA)
        industry_pe == Get(info, "industryPE", NA)
        comparison == <<Str(symbol), Str(" is in the "), sector,
                        Str(" sector, specifically in the "), industry,
                        Str(" industry. ")>>
        body ==
            IF ~up.ok THEN Raised(up.err)
            ELSE IF pe_ratio # NA /\ industry_pe # NA
            THEN IF ~IsNum(pe_ratio) \/ ~IsNum(industry_pe)
                 THEN Raised(NotComparable(pe_ratio, industry_pe))
                 ELSE IF pe_ratio.n < industry_pe.n
                 THEN Got(comparison \o
                          <<Str("Its P/E ratio ("), Fmt2f(pe_ratio.n), Lower,
                            Fmt2f(industry_pe.n),
                            Str("), which could indicate it's undervalued compared to its peers.")>>)
                 ELSE IF pe_ratio.n > industry_pe.n
                 THEN Got(comparison \o
                          <<Str("Its P/E ratio ("), Fmt2f(pe_ratio.n), Higher,
                            Fmt2f(industry_pe.n),
                            Str("), which could indicate it's overvalued compared to its peers.")>>)
                 ELSE Got(comparison \o
                          <<Str("Its P/E ratio ("), Fmt2f(pe_ratio.n), InLine,
                            Fmt2f(industry_pe.n), Str(").")>>)
            ELSE Got(comparison \o <<UnableToCompare>>)
        logged == <<Str("Error fetching industry comparison for "), Str(symbol),
                    Str(": "), Str(body.err)>>
        failed == <<Str("Unable to fetch industry comparison for "), Str(symbol),
                    Str(" due to an error: "), Str(body.err)>>
    IN  IF body.ok THEN Return(body.data) ELSE LogAndReturn(logged, failed)

\* the functions wrapped as tools, in the order of the tools list
CapabilityFunctions ==
    <<"get_stock_price", "get_company_info", "get_financial_ratios",
      "get_analyst_recommendations", "get_recent_news", "get_industry_comparison">>

\* what the yfinance attribute read by fn can give back
Upstreams(fn) ==
    {Raised(m) : m \in UpstreamErrors} \cup
    {Got(d) : d \in CASE fn = "get_stock_price" -> Histories
                      [] fn = "get_company_info" -> CompanyInfos
                      [] fn = "get_financial_ratios" -> RatioInfos
                      [] fn = "get_analyst_recommendations" -> Recommendations
                      [] fn = "get_recent_news" -> NewsLists
                      [] fn = "get_industry_comparison" -> ComparisonInfos}

\* the tool service calling the function registered under fn
Invoke(fn, symbol, up) ==
    CASE fn = "get_stock_price" -> get_stock_price(symbol, up)
      [] fn = "get_company_info" -> get_company_info(symbol, up)
      [] fn = "get_financial_ratios" -> get_financial_ratios(symbol, up)
      [] fn = "get_analyst_recommendations" -> get_analyst_recommendations(symbol, up)
      [] fn = "get_recent_news" -> get_recent_news(symbol, up)
      [] fn = "get_industry_comparison" -> get_industry_comparison(symbol, up)

(***************************************************************************)
(* Start-up of both scripts.                                               *)
(***************************************************************************)
\* a check that tests only for an unset variable
KeyMissing_unsetOnly(api_key) == api_key = None

\* not api_key: os.getenv gives None for an unset variable, "" for an empty one
KeyMissing(api_key) == api_key = None \/ api_key = Str("")

NoCall == [fn |-> "none", symbol |-> "", up |-> Raised(""), out |-> Return(<<>>)]

\* the request main.py passes to launch_single
MainRequest == "analyse AAPL"
\* the list queries of RAG.py's main()
Queries == <<"What are the risk factors for Uber?",
             "What was Lyft's revenue growth in 2021?">>

\* a second ToolMetadata copied from the first with its name left as it was
QueryEngineToolNames_copied == <<"lyft_10k", "lyft_10k">>

\* names of the two QueryEngineTool objects, in list order
QueryEngineToolNames == <<"lyft_10k", "uber_10k">>

\* FunctionTool.from_defaults(fn=f) names the tool after the function
FunctionToolNames == [i \in DOMAIN CapabilityFunctions |-> CapabilityFunctions[i]]

Init ==
    /\ script \in {"main", "RAG"}
    /\ env_key \in {None, Str(""), Str("sk-test")}
    /\ pc = "start"
    /\ exc = ""
    /\ registry = <<>>
    /\ launcher = FALSE
    /\ call = NoCall
    /\ storage \in IF script = "RAG" THEN SUBSET {"lyft", "uber"} ELSE {{}}
    /\ lyft_index = "unset"
    /\ uber_index = "unset"
    /\ persisted = {}
    /\ load_trace = <<>>
    /\ qi = 1
    /\ submitted = <<>>
    /\ stdout = <<>>

\* an uncaught exception ends the process
Crash(e) == pc' = "crashed" /\ exc' = e

\* api_key = os.getenv(...); if not api_key: raise ValueError(...)
CheckKey ==
    /\ pc = "start"
    /\ IF KeyMissing(env_key)
       THEN pc' = "aborted" /\ exc' = "ValueError"
       ELSE pc' = (IF script = "main" THEN "build_tools" ELSE "restore_lyft") /\ exc' = exc
    /\ UNCHANGED <<script, env_key, registry, launcher, call, storage, lyft_index,
                   uber_index, persisted, load_trace, qi, submitted, stdout>>

(***************************************************************************)
(* main.py                                                                 *)
(***************************************************************************)
\* the six FunctionTools, the ToolService and the meta_tools list
BuildTools ==
    /\ script = "main" /\ pc = "build_tools"
    /\ registry' = FunctionToolNames
    /\ pc' = "build_launcher"
    /\ UNCHANGED <<script, env_key, exc, launcher, call, storage, lyft_index,
                   uber_index, persisted, load_trace, qi, submitted, stdout>>

\* worker1, agent1, agent_server_1 and the LocalLauncher
BuildLauncher ==
    /\ script = "main" /\ pc = "build_launcher"
    /\ launcher' = TRUE
    /\ pc' = "launch"
    /\ UNCHANGED <<script, env_key, exc, registry, call, storage, lyft_index,
                   uber_index, persisted, load_trace, qi, submitted, stdout>>

\* result = launcher.launch_single(...): the call is made
LaunchSingle ==
    /\ script = "main" /\ pc = "launch"
    /\ submitted' = Append(submitted, MainRequest)
    /\ pc' = "await"
    /\ UNCHANGED <<script, env_key, exc, registry, launcher, call, storage, lyft_index,
                   uber_index, persisted, load_trace, qi, stdout>>

\* while the request is in flight the tool service runs the function the
\* agent named, on the symbol the agent chose
InvokeCapability ==
    /\ script = "main" /\ pc = "await"
    /\ \E i \in DOMAIN registry, symbol \in Symbols :
          \E up \in Upstreams(registry[i]) :
             call' = [fn |-> registry[i], symbol |-> symbol, up |-> up,
                      out |-> Invoke(registry[i], symbol, up)]
    /\ UNCHANGED <<script, env_key, pc, exc, registry, launcher, storage, lyft_index,
                   uber_index, persisted, load_trace, qi, submitted, stdout>>

\* launch_single returns; print(f"Result: {result}")
MainLaunchReturns ==
    /\ script = "main" /\ pc = "await"
    /\ stdout' = Append(stdout, [line |-> "Result", q |-> MainRequest])
    /\ pc' = "done"
    /\ UNCHANGED <<script, env_key, exc, registry, launcher, call, storage, lyft_index,
                   uber_index, persisted, load_trace, qi, submitted>>

\* launch_single raises: nothing at module level catches it
MainLaunchRaises ==
    /\ script = "main" /\ pc = "await"
    /\ Crash("LaunchError")
    /\ UNCHANGED <<script, env_key, registry, launcher, call, storage, lyft_index,
                   uber_index, persisted, load_trace, qi, submitted, stdout>>

(***************************************************************************)
(* RAG.py: load_and_index_data.  Each statement of it is one step; ok is   *)
(* whether the library call of the step returns (TRUE) or raises (FALSE).  *)
(* An index directory can be restored only if it is in storage.            *)
(***************************************************************************)
\* try: lyft_index = load_index_from_storage(<./storage/lyft>)
RestoreLyft ==
    /\ script = "RAG" /\ pc = "restore_lyft"
    /\ \E ok \in BOOLEAN :
          IF ok /\ "lyft" \in storage
          THEN /\ lyft_index' = "restored"
               /\ load_trace' = Append(load_trace, "restore_lyft")
               /\ pc' = "restore_uber"
          ELSE /\ lyft_index' = lyft_index
               /\ load_trace' = Append(load_trace, "restore_lyft_failed")
               /\ pc' = "read_lyft"
    /\ UNCHANGED <<script, env_key, exc, registry, launcher, call, storage,
                   uber_index, persisted, qi, submitted, stdout>>

\* uber_index = load_index_from_storage(<./storage/uber>); except: ...
RestoreUber ==
    /\ script = "RAG" /\ pc = "restore_uber"
    /\ \E ok \in BOOLEAN :
          IF ok /\ "uber" \in storage
          THEN /\ uber_index' = "restored"
               /\ load_trace' = Append(load_trace, "restore_uber")
               /\ pc' = "return"
          ELSE /\ uber_index' = uber_index
               /\ load_trace' = Append(load_trace, "restore_uber_failed")
               /\ pc' = "read_lyft"
    /\ UNCHANGED <<script, env_key, exc, registry, launcher, call, storage,
                   lyft_index, persisted, qi, submitted, stdout>>

\* lyft_docs = SimpleDirectoryReader(...).load_data()
ReadLyftDocs ==
    /\ script = "RAG" /\ pc = "read_lyft"
    /\ \E ok \in BOOLEAN :
          IF ok
          THEN /\ load_trace' = Append(load_trace, "read_lyft")
               /\ pc' = "read_uber" /\ exc' = exc
          ELSE /\ load_trace' = Append(load_trace, "read_lyft_failed")
               /\ Crash("ReadError")
    /\ UNCHANGED <<script, env_key, registry, launcher, call, storage, lyft_index,
                   uber_index, persisted, qi, submitted, stdout>>

\* uber_docs = SimpleDirectoryReader(...).load_data()
ReadUberDocs ==
    /\ script = "RAG" /\ pc = "read_uber"
    /\ \E ok \in BOOLEAN :
          IF ok
          THEN /\ load_trace' = Append(load_trace, "read_uber")
               /\ pc' = "index_lyft" /\ exc' = exc
          ELSE /\ load_trace' = Append(load_trace, "read_uber_failed")
               /\ Crash("ReadError")
    /\ UNCHANGED <<script, env_key, registry, launcher, call, storage, lyft_index,
                   uber_index, persisted, qi, submitted, stdout>>

\* a rebuild that keeps an index the try block had already restored
BuildLyftIndex_keepRestored ==
    /\ script = "RAG" /\ pc = "index_lyft"
    /\ \E ok \in BOOLEAN :
          IF ok
          THEN /\ lyft_index' = (IF lyft_index = "restored" THEN "restored" ELSE "rebuilt")
               /\ load_trace' = Append(load_trace, "index_lyft")
               /\ pc' = "index_uber" /\ exc' = exc
          ELSE /\ lyft_index' = lyft_index
               /\ load_trace' = Append(load_trace, "index_lyft_failed")
               /\ Crash("IndexError")
    /\ UNCHANGED <<script, env_key, registry, launcher, call, storage,
                   uber_index, persisted, qi, submitted, stdout>>

\* lyft_index = VectorStoreIndex.from_documents(lyft_docs)
BuildLyftIndex ==
    /\ script = "RAG" /\ pc = "index_lyft"
    /\ \E ok \in BOOLEAN :
          IF ok
          THEN /\ lyft_index' = "rebuilt"
               /\ load_trace' = Append(load_trace, "index_lyft")
               /\ pc' = "index_uber" /\ exc' = exc
          ELSE /\ lyft_index' = lyft_index
               /\ load_trace' = Append(load_trace, "index_lyft_failed")
               /\ Crash("IndexError")
    /\ UNCHANGED <<script, env_key, registry, launcher, call, storage,
                   uber_index, persisted, qi, submitted, stdout>>

\* uber_index = VectorStoreIndex.from_documents(uber_docs)
BuildUberIndex ==
    /\ script = "RAG" /\ pc = "index_uber"
    /\ \E ok \in BOOLEAN :
          IF ok
          THEN /\ uber_index' = "rebuilt"
               /\ load_trace' = Append(load_trace, "index_uber")
               /\ pc' = "persist_lyft" /\ exc' = exc
          ELSE /\ uber_index' = uber_index
               /\ load_trace' = Append(load_trace, "index_uber_failed")
               /\ Crash("IndexError")
    /\ UNCHANGED <<script, env_key, registry, launcher, call, storage,
                   lyft_index, persisted, qi, submitted, stdout>>

\* lyft_index.storage_context.persist(persist_dir="./storage/lyft")
PersistLyft ==
    /\ script = "RAG" /\ pc = "persist_lyft"
    /\ \E ok \in BOOLEAN :
          IF ok
          THEN /\ persisted' = persisted \cup {"lyft"}
               /\ storage' = storage \cup {"lyft"}
               /\ load_trace' = Append(load_trace, "persist_lyft")
               /\ pc' = "persist_uber" /\ exc' = exc
          ELSE /\ persisted' = persisted /\ storage' = storage
               /\ load_trace' = Append(load_trace, "persist_lyft_failed")
               /\ Crash("PersistError")
    /\ UNCHANGED <<script, env_key, registry, launcher, call, lyft_index,
                   uber_index, qi, submitted, stdout>>

\* uber_index.storage_context.persist(persist_dir="./storage/uber")
PersistUber ==
    /\ script = "RAG" /\ pc = "persist_uber"
    /\ \E ok \in BOOLEAN :
          IF ok
          THEN /\ persisted' = persisted \cup {"uber"}
               /\ storage' = storage \cup {"uber"}
               /\ load_trace' = Append(load_trace, "persist_uber")
               /\ pc' = "return" /\ exc' = exc
          ELSE /\ persisted' = persisted /\ storage' = storage
               /\ load_trace' = Append(load_trace, "persist_uber_failed")
               /\ Crash("PersistError")
    /\ UNCHANGED <<script, env_key, registry, launcher, call, lyft_index,
                   uber_index, qi, submitted, stdout>>

\* return lyft_index, uber_index
ReturnIndices ==
    /\ script = "RAG" /\ pc = "return"
    /\ load_trace' = Append(load_trace, "return")
    /\ pc' = "setup_tools"
    /\ UNCHANGED <<script, env_key, exc, registry, launcher, call, storage, lyft_index,
                   uber_index, persisted, qi, submitted, stdout>>

(***************************************************************************)
(* RAG.py: the tools, the services and the driver loop of main().          *)
(***************************************************************************)
\* setup_query_engines_and_tools
SetupTools ==
    /\ script = "RAG" /\ pc = "setup_tools"
    /\ registry' = QueryEngineToolNames
    /\ pc' = "setup_agents"
    /\ UNCHANGED <<script, env_key, exc, launcher, call, storage, lyft_index,
                   uber_index, persisted, load_trace, qi, submitted, stdout>>

\* setup_agents_and_services: one meta tool per t.metadata.name, then the launcher
SetupAgents ==
    /\ script = "RAG" /\ pc = "setup_agents"
    /\ registry' = [i \in DOMAIN registry |-> registry[i]]
    /\ launcher' = TRUE
    /\ pc' = "submit"
    /\ UNCHANGED <<script, env_key, exc, call, storage, lyft_index,
                   uber_index, persisted, load_trace, qi, submitted, stdout>>

\* a loop body that starts the request and moves on without awaiting it
SubmitQuery_notAwaited ==
    /\ script = "RAG" /\ pc = "submit" /\ qi <= Len(Queries)
    /\ stdout' = Append(stdout, [line |-> "Query", q |-> Queries[qi]])
    /\ submitted' = Append(submitted, Queries[qi])
    /\ qi' = qi + 1
    /\ pc' = IF qi + 1 > Len(Queries) THEN "done" ELSE "submit"
    /\ UNCHANGED <<script, env_key, exc, registry, launcher, call, storage, lyft_index,
                   uber_index, persisted, load_trace>>

\* for query in queries: print(f"Query: {query}"); launcher.alaunch_single(query)
SubmitQuery ==
    /\ script = "RAG" /\ pc = "submit" /\ qi <= Len(Queries)
    /\ stdout' = Append(stdout, [line |-> "Query", q |-> Queries[qi]])
    /\ submitted' = Append(submitted, Queries[qi])
    /\ pc' = "await"
    /\ UNCHANGED <<script, env_key, exc, registry, launcher, call, storage, lyft_index,
                   uber_index, persisted, load_trace, qi>>

\* the await completes: print(f"Result: {result}\n"), then the next iteration
\* or, after the last query, the end of main()
RagLaunchReturns ==
    /\ script = "RAG" /\ pc = "await"
    /\ stdout' = Append(stdout, [line |-> "Result", q |-> Queries[qi]])
    /\ qi' = qi + 1
    /\ pc' = IF qi + 1 > Len(Queries) THEN "done" ELSE "submit"
    /\ UNCHANGED <<script, env_key, exc, registry, launcher, call, storage, lyft_index,
                   uber_index, persisted, load_trace, submitted>>

\* the await raises: main() has no handler, run_until_complete re-raises
RagLaunchRaises ==
    /\ script = "RAG" /\ pc = "await"
    /\ Crash("LaunchError")
    /\ UNCHANGED <<script, env_key, registry, launcher, call, storage, lyft_index,
                   uber_index, persisted, load_trace, qi, submitted, stdout>>

Next ==
    \/ CheckKey
    \/ BuildTools
    \/ BuildLauncher
    \/ LaunchSingle
    \/ InvokeCapability
    \/ MainLaunchReturns
    \/ MainLaunchRaises
    \/ RestoreLyft
    \/ RestoreUber
    \/ ReadLyftDocs
    \/ ReadUberDocs
    \/ BuildLyftIndex
    \/ BuildUberIndex
    \/ PersistLyft
    \/ PersistUber
    \/ ReturnIndices
    \/ SetupTools
    \/ SetupAgents
    \/ SubmitQuery
    \/ RagLaunchReturns
    \/ RagLaunchRaises

Spec == Init /\ [][Next]_vars

(***************************************************************************)
(* Properties.                                                             *)
(***************************************************************************)
Contains(text, piece) == \E i \in DOMAIN text : text[i] = piece
IsPrefix(s, t) == Len(s) <= Len(t) /\ \A i \in DOMAIN s : s[i] = t[i]
Terminated == pc \in {"done", "crashed", "aborted"}

\* first piece of each string an except clause returns
ErrorOpeners ==
    {Str("Error fetching stock price for "), Str("Error fetching company info for "),
     Str("Error fetching financial ratios for "),
     Str("Unable to fetch analyst recommendations for "),
     Str("Error fetching recent news for "),
     Str("Unable to fetch industry comparison for ")}
IsErrorText(text) == text # <<>> /\ text[1] \in ErrorOpeners

\* C1: whenever the upstream lookup of a capability function raised, the
\* function returned (did not raise) a string that contains the symbol it was
\* called with and the text of the exception.
C1_UpstreamFailureReturnsString ==
    (call.fn # "none" /\ ~call.up.ok) =>
        /\ call.out.kind = "return"
        /\ Contains(call.out.text, Str(call.symbol))
        /\ Contains(call.out.text, Str(call.up.err))

C1_Witness ==
    /\ call.fn = "get_recent_news" /\ ~call.up.ok
    /\ call.symbol = "MSFT" /\ call.up.err = "HTTP 404"
    /\ IsErrorText(call.out.text)

\* keys of the info record a capability function reads
InfoKeys(fn) ==
    CASE fn = "get_company_info" -> {"longName", "sector", "longBusinessSummary"}
      [] fn = "get_financial_ratios" -> {"trailingPE", "priceToBook", "dividendYield"}
      [] fn = "get_industry_comparison" -> {"sector", "industry", "trailingPE", "industryPE"}
      [] OTHER -> {}

\* the lookup succeeded, and the data is empty or a field is absent or null
MissingData(c) ==
    /\ c.up.ok
    /\ CASE c.fn = "get_stock_price" -> c.up.data.shape = "empty"
         [] c.fn = "get_analyst_recommendations" -> c.up.data.shape \in {"none", "empty"}
         [] c.fn = "get_recent_news" -> c.up.data.shape = "empty"
         [] OTHER -> \E k \in InfoKeys(c.fn) :
                        k \notin DOMAIN c.up.data.d \/ c.up.data.d[k] = None

\* C2: a capability function whose lookup succeeded but gave empty data or a
\* record with an absent or null field returns a message that is not an error
\* string and logs no error; an error is logged only when the lookup failed.
C2_MissingDataIsNotAnError ==
    call.fn # "none" =>
        /\ MissingData(call) =>
              /\ call.out.kind = "return"
              /\ call.out.log = <<>>
              /\ ~IsErrorText(call.out.text)
        /\ call.out.log # <<>> => ~call.up.ok

\* C3: with OPENAI_API_KEY unset or empty the script gets no further than the
\* ValueError: no tool list, launcher, index or request exists and nothing is
\* printed.
C3_NoKeyNoWork ==
    (env_key = None \/ env_key = Str("")) =>
        /\ pc \in {"start", "aborted"}
        /\ pc = "aborted" => exc = "ValueError"
        /\ registry = <<>> /\ ~launcher /\ call = NoCall
        /\ load_trace = <<>> /\ persisted = {}
        /\ submitted = <<>> /\ stdout = <<>>

C3_Witness == script = "RAG" /\ env_key = Str("") /\ pc = "aborted" /\ exc = "ValueError"

\* what main() of RAG.py prints when every request is answered
ExpectedOutput ==
    [k \in 1..(2 * Len(Queries)) |->
        IF k % 2 = 1 THEN [line |-> "Query", q |-> Queries[(k + 1) \div 2]]
        ELSE [line |-> "Result", q |-> Queries[k \div 2]]]
IsResult(l) == l.line = "Result"
IsQuery(l) == l.line = "Query"

\* C4: the driver of RAG.py submits its queries in list order, one at a time:
\* the requests submitted are a prefix of the list, a request is submitted only
\* after the result of every earlier one was printed, and the output is always
\* a prefix of Query 1, Result 1, Query 2, Result 2.
C4_SequentialInOrder ==
    script = "RAG" =>
        /\ IsPrefix(submitted, Queries)
        /\ IsPrefix(stdout, ExpectedOutput)
        /\ Len(SelectSeq(stdout, IsQuery)) = Len(submitted)
        /\ Len(SelectSeq(stdout, IsResult)) >= Len(submitted) - 1

C4_Witness ==
    script = "RAG" /\ pc = "done" /\ submitted = Queries /\ stdout = ExpectedOutput

\* C5: after a request whose launcher call raised, the driver of RAG.py still
\* submits every later request: a run that has ended submitted all of them.
C5_FailureDoesNotStopDriver ==
    (script = "RAG" /\ launcher /\ Terminated) => Len(submitted) = Len(Queries)

\* printed results of query i, plus the failure reported for it
Outcomes(i) ==
    Cardinality({k \in DOMAIN stdout : stdout[k] = [line |-> "Result", q |-> Queries[i]]})
    + (IF exc = "LaunchError" /\ qi = i THEN 1 ELSE 0)

\* C6: when the driver of RAG.py has ended, every query of its list has exactly
\* one outcome, a printed result or a reported failure.
C6_OneOutcomePerRequest ==
    (script = "RAG" /\ launcher /\ Terminated) =>
        \A i \in DOMAIN Queries : Outcomes(i) = 1

\* C7: the tool names handed to the agent worker are pairwise distinct (six in
\* main.py, two in RAG.py), a name selects exactly one tool, and the list never
\* changes once built.
C7_RegistryNamesUnique ==
    /\ [](/\ \A i \in DOMAIN registry :
                Cardinality({j \in DOMAIN registry : registry[j] = registry[i]}) = 1
          /\ launcher => Len(registry) = (IF script = "main" THEN 6 ELSE 2))
    /\ [][registry # <<>> => registry' = registry]_vars

C7_Witness ==
    /\ script = "main" /\ pc = "await" /\ call.fn = "get_industry_comparison"
    /\ Len(registry) = 6 /\ registry[6] = "get_industry_comparison"

Returned == load_trace # <<>> /\ load_trace[Len(load_trace)] = "return"
RestoreFailed ==
    Contains(load_trace, "restore_lyft_failed") \/ Contains(load_trace, "restore_uber_failed")
RebuildFailed ==
    \E step \in {"read_lyft_failed", "read_uber_failed", "index_lyft_failed",
                 "index_uber_failed", "persist_lyft_failed", "persist_uber_failed"} :
        Contains(load_trace, step)

\* C9: when load_and_index_data has returned, either both indices were restored
\* and nothing was persisted, or both were rebuilt and both persisted; a failed
\* restore of either leads to the second case; a failure while rebuilding or
\* persisting ends the run with that exception, before any tool is built.
C9_LoadAllOrNothing ==
    /\ Returned =>
          \/ lyft_index = "restored" /\ uber_index = "restored" /\ persisted = {}
          \/ lyft_index = "rebuilt" /\ uber_index = "rebuilt"
             /\ persisted = {"lyft", "uber"}
    /\ (Returned /\ RestoreFailed) => (lyft_index = "rebuilt" /\ uber_index = "rebuilt")
    /\ (Returned /\ ~RestoreFailed) => persisted = {}
    /\ RebuildFailed =>
          /\ pc = "crashed" /\ exc \in {"ReadError", "IndexError", "PersistError"}
          /\ ~Returned /\ registry = <<>> /\ ~launcher

C9_Witness ==
    /\ Returned
    /\ load_trace[1] = "restore_lyft" /\ load_trace[2] = "restore_uber_failed"
    /\ lyft_index = "rebuilt" /\ uber_index = "rebuilt" /\ persisted = {"lyft", "uber"}

Verdicts == {Lower, Higher, InLine, UnableToCompare}

\* C10: after a successful lookup get_industry_comparison's string holds exactly
\* one verdict: lower iff both P/E values are present and P/E < industry P/E,
\* higher iff both present and P/E > industry P/E, in line iff both present and
\* equal, unable to compare iff one of the two is absent.
C10_ExactlyOneVerdict ==
    (call.fn = "get_industry_comparison" /\ call.up.ok) =>
        LET info == call.up.data.d
            both == "trailingPE" \in DOMAIN info /\ "industryPE" \in DOMAIN info
            numbers == both /\ IsNum(info["trailingPE"]) /\ IsNum(info["industryPE"])
            found == {v \in Verdicts : Contains(call.out.text, v)}
        IN  /\ Cardinality(found) = 1
            /\ Lower \in found <=>
                  (numbers /\ info["trailingPE"].n < info["industryPE"].n)
            /\ Higher \in found <=>
                  (numbers /\ info["trailingPE"].n > info["industryPE"].n)
            /\ InLine \in found <=>
                  (numbers /\ info["trailingPE"].n = info["industryPE"].n)
            /\ UnableToCompare \in found <=> ~both

====
